---- MODULE Spec2Model ----
(***************************************************************************)
(* Model of iodata/formats/xyz.py: the XYZ reader (load_one, load_many)    *)
(* and writer (dump_one, dump_many).                                       *)
(*                                                                         *)
(* Text is modelled as sequences of one-character strings.  A line of a    *)
(* file carries its terminating "\n", as the lines a Python text file      *)
(* yields and the lines print() writes do.  A float is an IEEE 754 double: *)
(* [k |-> "num", s |-> sign, M |-> significand, E |-> exponent] is the     *)
(* number s * M * 2^E, the significand written as its decimal digits, and  *)
(* k is "inf" for an infinity of sign s and "nan" for a nan.  An integer   *)
(* is below 2^31.                                                          *)
(***************************************************************************)
EXTENDS Integers, Sequences, FiniteSets, TLC

VARIABLES
  lit,      \* the line source: [lines, lineno], lineno lines consumed so far
  ret,      \* the outcome of the latest load_one call
  gen,      \* the load_many generator: [state, outcome]
  out,      \* the records the generator has yielded, in order
  marks,    \* lit.lineno at each yield
  f,        \* the text sink: [lines, closed, flushes]
  written,  \* the records handed to dump_one so far, in order
  last      \* the latest writer call: [op, arg, before, calls]

vars == <<lit, ret, gen, out, marks, f, written, last>>

(***************************************************************************)
(* Bounds of the model.                                                    *)
(***************************************************************************)
MaxLines == 4

MaxAtoms == 2

MaxFrames == 2

(***************************************************************************)
(* Characters and the str methods the code uses.                           *)
(*                                                                         *)
(* A character of Latin-1 is the string that holds it.  A character beyond *)
(* Latin-1 cannot stand in a string of this module and is named by its     *)
(* code point: "U+0178" and "U+039C", the capitals of "ÿ" and "µ", and     *)
(* "U+03BC", the small letter of the latter capital.  The digits and the   *)
(* letters of other scripts are not characters of the model.               *)
(***************************************************************************)
\* The lower-case letters that have a one-letter capital of which they are
\* the small letter, and the capitals, in the same order.
Lowers == <<"a","b","c","d","e","f","g","h","i","j","k","l","m",
            "n","o","p","q","r","s","t","u","v","w","x","y","z",
            "à","á","â","ã","ä","å","æ","ç","è","é","ê","ë","ì",
            "í","î","ï","ð","ñ","ò","ó","ô","õ","ö","ø","ù","ú",
            "û","ü","ý","þ","ÿ","U+03BC">>

Uppers == <<"A","B","C","D","E","F","G","H","I","J","K","L","M",
            "N","O","P","Q","R","S","T","U","V","W","X","Y","Z",
            "À","Á","Â","Ã","Ä","Å","Æ","Ç","È","É","Ê","Ë","Ì",
            "Í","Î","Ï","Ð","Ñ","Ò","Ó","Ô","Õ","Ö","Ø","Ù","Ú",
            "Û","Ü","Ý","Þ","U+0178","U+039C">>

\* The other lower-case letters: str.title() turns "ß" into "Ss" and "µ"
\* into "U+039C", and leaves "ª" and "º" as they are.
UnpairedLowers == {"ß", "µ", "ª", "º"}

DigitChars == <<"0","1","2","3","4","5","6","7","8","9">>

IndexIn(c, s) == IF \E i \in 1..Len(s) : s[i] = c
                 THEN CHOOSE i \in 1..Len(s) : s[i] = c
                 ELSE 0

\* str.isspace() of one character
IsSpace(c) == c \in {" ", "\t", "\n", "\r", "\f", "",
                     "", "", "", "", "", " "}

Range(s) == { s[i] : i \in 1..Len(s) }

DigitSet == Range(DigitChars)

LowerSet == Range(Lowers) \cup UnpairedLowers

UpperSet == Range(Uppers)

IsDigit(c) == c \in DigitSet

DigitVal(c) == IndexIn(c, DigitChars) - 1

\* str.islower() of one character
IsLower(c) == c \in LowerSet

\* str.isupper() of one character
IsUpper(c) == c \in UpperSet

IsCased(c) == IsLower(c) \/ IsUpper(c)

\* str.upper() of one character, a text: "ß" becomes "SS".
ToUpper(c) == IF c = "ß" THEN <<"S", "S">>
              ELSE IF c = "µ" THEN <<"U+039C">>
              ELSE IF IndexIn(c, Lowers) > 0 THEN << Uppers[IndexIn(c, Lowers)] >>
              ELSE <<c>>

\* str.lower() of one character
ToLower(c) == IF IsUpper(c) THEN Lowers[IndexIn(c, Uppers)] ELSE c

\* str.title() of one character, a text: "ß" becomes "Ss".
ToTitle(c) == IF c = "ß" THEN <<"S", "s">> ELSE ToUpper(c)

\* str.title(): a character is title-cased when it starts a word (the
\* previous character is not cased) and lower-cased otherwise.
RECURSIVE TitleFrom(_, _, _)
TitleFrom(s, prevCased, acc) ==
  IF s = <<>> THEN acc
  ELSE TitleFrom(Tail(s), IsCased(Head(s)),
                 IF prevCased THEN Append(acc, ToLower(Head(s)))
                 ELSE acc \o ToTitle(Head(s)))

Title(s) == TitleFrom(s, FALSE, <<>>)

RECURSIVE LStrip(_)
LStrip(s) == IF s # <<>> /\ IsSpace(Head(s)) THEN LStrip(Tail(s)) ELSE s

RECURSIVE RStrip(_)
RStrip(s) == IF s # <<>> /\ IsSpace(s[Len(s)])
             THEN RStrip(SubSeq(s, 1, Len(s) - 1))
             ELSE s

\* str.strip()
Strip(s) == RStrip(LStrip(s))

\* str.split(): the maximal runs of non-whitespace characters, in order.
RECURSIVE SplitFrom(_, _, _)
SplitFrom(s, cur, acc) ==
  IF s = <<>>
  THEN IF cur = <<>> THEN acc ELSE Append(acc, cur)
  ELSE IF IsSpace(Head(s))
       THEN SplitFrom(Tail(s), <<>>, IF cur = <<>> THEN acc ELSE Append(acc, cur))
       ELSE SplitFrom(Tail(s), Append(cur, Head(s)), acc)

Split(s) == SplitFrom(s, <<>>, <<>>)

AllDigits(s) == s # <<>> /\ \A i \in 1..Len(s) : IsDigit(s[i])

RECURSIVE DigitsVal(_, _)
DigitsVal(s, acc) == IF s = <<>> THEN acc
                     ELSE DigitsVal(Tail(s), 10 * acc + DigitVal(Head(s)))

HasSign(s) == s # <<>> /\ Head(s) \in {"+", "-"}

Unsigned(s) == IF HasSign(s) THEN Tail(s) ELSE s

SignOf(s) == IF s # <<>> /\ Head(s) = "-" THEN -1 ELSE 1

\* The digit grouping of int() and float(): an underscore stands between two
\* digits.
ValidUnderscores(s) ==
  \A i \in 1..Len(s) :
    s[i] = "_" => i > 1 /\ i < Len(s) /\ IsDigit(s[i-1]) /\ IsDigit(s[i+1])

NotUnderscore(c) == c # "_"

NoUnderscores(s) == SelectSeq(s, NotUnderscore)

\* The whitespace int() and float() ignore around a number: that of
\* str.isspace() without the four separators \x1c to \x1f.
IsBlank(c) == IsSpace(c) /\ c \notin {"", "", "", ""}

RECURSIVE LBare(_)
LBare(s) == IF s # <<>> /\ IsBlank(Head(s)) THEN LBare(Tail(s)) ELSE s

RECURSIVE RBare(_)
RBare(s) == IF s # <<>> /\ IsBlank(s[Len(s)])
            THEN RBare(SubSeq(s, 1, Len(s) - 1))
            ELSE s

Bare(s) == RBare(LBare(s))

\* The most digits, leading zeros counted and underscores not, of a text
\* that int() converts.
MaxStrDigits == 4300

\* The digits ds of an integer text, with the sign sign.
IntOf(sign, ds) ==
  IF AllDigits(ds) /\ Len(ds) <= MaxStrDigits
  THEN [ok |-> TRUE, val |-> sign * DigitsVal(ds, 0)]
  ELSE [ok |-> FALSE, val |-> 0]

\* int(text): surrounding whitespace ignored, an optional sign, then at most
\* MaxStrDigits decimal digits, single underscores allowed between them;
\* anything else raises ValueError (ok = FALSE).
ParseInt(s) ==
  LET t == Bare(s)
      d == Unsigned(t)
  IN  IF ValidUnderscores(d)
      THEN IntOf(SignOf(t), NoUnderscores(d))
      ELSE [ok |-> FALSE, val |-> 0]

(***************************************************************************)
(* Whole numbers of any size: the decimal digits, most significant first,  *)
(* without leading zeros; zero is <<0>>.                                   *)
(***************************************************************************)
Abs(n) == IF n < 0 THEN -n ELSE n

RECURSIVE DigitsOf(_)
DigitsOf(n) == IF n < 10 THEN <<n>> ELSE Append(DigitsOf(n \div 10), n % 10)

Zeros(n) == [i \in 1..n |-> 0]

DigitText(q) == [i \in 1..Len(q) |-> DigitChars[q[i] + 1]]

\* a without its leading zeros
Trim(a) ==
  IF \A i \in 1..Len(a) : a[i] = 0 THEN <<0>>
  ELSE SubSeq(a, CHOOSE i \in 1..Len(a) : a[i] # 0 /\ \A j \in 1..(i - 1) : a[j] = 0,
              Len(a))

PadTo(a, n) == Zeros(n - Len(a)) \o a

Rev(a) == [i \in 1..Len(a) |-> a[Len(a) + 1 - i]]

NatLess(a, b) ==
  \/ Len(a) < Len(b)
  \/ /\ Len(a) = Len(b)
     /\ \E i \in 1..Len(a) : a[i] < b[i] /\ \A j \in 1..(i - 1) : a[j] = b[j]

\* The digits i..j of a, least significant first, times k, plus c: the
\* digits, least significant first, and the carry.
RECURSIVE MulRange(_, _, _, _, _)
MulRange(a, i, j, k, c) ==
  IF i = j THEN [d |-> << (a[i] * k + c) % 10 >>, c |-> (a[i] * k + c) \div 10]
  ELSE LET mid == (i + j) \div 2
           lo == MulRange(a, i, mid, k, c)
           hi == MulRange(a, mid + 1, j, k, lo.c)
       IN  [d |-> lo.d \o hi.d, c |-> hi.c]

\* The whole number of the digits r.d, least significant first, under the
\* carry r.c.
Joined(r) == Trim(DigitsOf(r.c) \o Rev(r.d))

\* a * k, for k up to 2^Chunk
NatTimes(a, k) == Joined(MulRange(Rev(a), 1, Len(a), k, 0))

RECURSIVE AddRange(_, _, _, _, _)
AddRange(a, b, i, j, c) ==
  IF i = j THEN [d |-> << (a[i] + b[i] + c) % 10 >>, c |-> (a[i] + b[i] + c) \div 10]
  ELSE LET mid == (i + j) \div 2
           lo == AddRange(a, b, i, mid, c)
           hi == AddRange(a, b, mid + 1, j, lo.c)
       IN  [d |-> lo.d \o hi.d, c |-> hi.c]

\* a + b, both as n digits
AddPadded(a, b, n) ==
  Joined(AddRange(Rev(PadTo(a, n)), Rev(PadTo(b, n)), 1, n, 0))

NatAdd(a, b) == AddPadded(a, b, IF Len(a) > Len(b) THEN Len(a) ELSE Len(b))

\* The digits i..j of a - b, less the borrow c: the digits and the borrow.
RECURSIVE SubRange(_, _, _, _, _)
SubRange(a, b, i, j, c) ==
  IF i = j THEN [d |-> << (a[i] - b[i] - c + 10) % 10 >>,
                 c |-> IF a[i] - b[i] - c < 0 THEN 1 ELSE 0]
  ELSE LET mid == (i + j) \div 2
           lo == SubRange(a, b, i, mid, c)
           hi == SubRange(a, b, mid + 1, j, lo.c)
       IN  [d |-> lo.d \o hi.d, c |-> hi.c]

\* a - b, for a >= b
NatSub(a, b) ==
  Trim(Rev(SubRange(Rev(a), Rev(PadTo(b, Len(a))), 1, Len(a), 0).d))

\* a times the digits i..j of b
RECURSIVE MulBy(_, _, _, _)
MulBy(a, b, i, j) ==
  IF i = j THEN NatTimes(a, b[i])
  ELSE LET mid == (i + j) \div 2
       IN  NatAdd(MulBy(a, b, i, mid) \o Zeros(j - mid), MulBy(a, b, mid + 1, j))

NatMul(a, b) == Trim(MulBy(a, b, 1, Len(b)))

\* How often b goes into r, and what is left.
RECURSIVE Fits(_, _, _)
Fits(r, b, n) == IF NatLess(r, b) THEN [n |-> n, r |-> r]
                 ELSE Fits(NatSub(r, b), b, n + 1)

QuotDigit(ft) == [q |-> <<ft.n>>, r |-> ft.r]

\* Schoolbook division of the digits i..j of a by b, r left from the digits
\* before them: quotient digits, remainder.
RECURSIVE DivRange(_, _, _, _, _)
DivRange(a, i, j, b, r) ==
  IF i = j THEN QuotDigit(Fits(Trim(Append(r, a[i])), b, 0))
  ELSE LET mid == (i + j) \div 2
           hi == DivRange(a, i, mid, b, r)
           lo == DivRange(a, mid + 1, j, b, hi.r)
       IN  [q |-> hi.q \o lo.q, r |-> lo.r]

Quot(d) == [q |-> Trim(d.q), r |-> d.r]

\* a divided by b: quotient q and remainder r
NatDiv(a, b) == Quot(DivRange(a, 1, Len(a), b, <<0>>))

\* The largest power of two a digit is multiplied with in one step.
Chunk == 27

\* a * 2^n (a itself for n <= 0), Chunk binary digits at a time
RECURSIVE Shifted(_, _)
Shifted(a, n) ==
  IF n <= 0 THEN a
  ELSE Shifted(NatTimes(a, 2^(IF n < Chunk THEN n ELSE Chunk)), n - Chunk)

Pow2(n) == Shifted(<<1>>, n)

Pow10(n) == <<1>> \o Zeros(n)

\* The number of binary digits of a > 0.
RECURSIVE BitsFrom(_, _)
BitsFrom(a, g) == IF NatLess(a, Pow2(g)) THEN g ELSE BitsFrom(a, g + 1)

BitLen(a) == BitsFrom(a, ((Len(a) - 1) * 3321) \div 1000)

(***************************************************************************)
(* Floats: the doubles of IEEE 754, their arithmetic rounded to nearest,   *)
(* ties to even, the unit constant and the fixed-point format.             *)
(***************************************************************************)
\* The binary digits of a significand.
MantBits == 53

\* The least and the greatest exponent E of a double M * 2^E.
MinExp == -1074

MaxExp == 971

\* The number s * M * 2^E.  It is kept with M >= 2^(MantBits - 1), or with
\* E = MinExp (a subnormal number), a zero with M = <<0>> and E = 0.
Num(s, M, E) == [k |-> "num", s |-> s, M |-> M, E |-> E]

Zero(s) == Num(s, <<0>>, 0)

Inf(s) == [k |-> "inf", s |-> s, M |-> <<0>>, E |-> 0]

NaN == [k |-> "nan", s |-> 1, M |-> <<0>>, E |-> 0]

Odd(a) == a[Len(a)] % 2 = 1

\* q, or q + 1 when twice the remainder is more than den, or is den and q
\* is odd.
Nearer(q, twice, den) ==
  IF NatLess(den, twice) \/ (twice = den /\ Odd(q))
  THEN NatAdd(q, <<1>>)
  ELSE q

\* The quotient d of a division by den, rounded to the nearest whole number,
\* to the even one of two equally near.
HalfEven(d, den) == Nearer(d.q, NatTimes(d.r, 2), den)

\* The double of sign s, significand M and exponent E, M up to twice least
\* (least the least significand of MantBits binary digits).
Carried(s, M, E, least) ==
  IF M = <<0>> THEN Zero(s)
  ELSE IF M = NatTimes(least, 2)
       THEN (IF E + 1 > MaxExp THEN Inf(s) ELSE Num(s, least, E + 1))
  ELSE IF E > MaxExp THEN Inf(s)
  ELSE Num(s, M, E)

\* The double of sign s, significand M and exponent E, M up to 2^MantBits
\* after rounding: an overflow gives an infinity.
Packed(s, M, E) == Carried(s, M, E, Pow2(MantBits - 1))

\* num / den rounded to a whole number, as the significand at exponent E
RoundBy(s, num, den, E) == Packed(s, HalfEven(NatDiv(num, den), den), E)

\* (A / B) * 2^E0 rounded to a whole multiple of 2^(e + E0).
RoundAt(s, A, B, e, E0) == RoundBy(s, Shifted(A, -e), Shifted(B, e), e + E0)

\* (A / B) * 2^E0 rounded at exponent e1 + E0, at MinExp if that is less.
Clamped(s, A, B, e1, E0) ==
  RoundAt(s, A, B, IF e1 + E0 < MinExp THEN MinExp - E0 ELSE e1, E0)

\* (A / B) * 2^E0 rounded, A / B from 2^(e + MantBits - 1) up to
\* 2^(e + MantBits + 1): the exponent is e, or e + 1 from 2^(e + MantBits) on.
Scaled(s, A, B, e, E0) ==
  Clamped(s, A, B,
          IF NatLess(Shifted(A, -e),
                     Shifted(B, (IF e > 0 THEN e ELSE 0) + MantBits))
          THEN e ELSE e + 1,
          E0)

\* The double nearest to s * (A / B) * 2^E0, for whole numbers A and B > 0:
\* the exponent is chosen so that the significand has MantBits binary digits,
\* and is at least MinExp.
Nearest(s, A, B, E0) ==
  IF A = <<0>> THEN Zero(s)
  ELSE Scaled(s, A, B, BitLen(A) - BitLen(B) - MantBits, E0)

\* The double nearest to s * N * 10^p.  (A number of more than 310 digits
\* before the point is past the greatest double, one with more than 330
\* zeros after the point is nearer to zero than to any other double.)
FromDecimal(s, N, p) ==
  IF N = <<0>> THEN Zero(s)
  ELSE IF Len(N) + p > 310 THEN Inf(s)
  ELSE IF Len(N) + p < -330 THEN Zero(s)
  ELSE Nearest(s, N \o Zeros(p), Pow10(-p), 0)

Lowered(s) == [i \in 1..Len(s) |-> ToLower(s[i])]

InfTexts == { <<"i","n","f">>, <<"i","n","f","i","n","i","t","y">> }

NanText == <<"n","a","n">>

\* The place of the exponent mark in a float text, 0 when it has none.
ExpAt(s) == IF \E i \in 1..Len(s) : s[i] \in {"e", "E"}
            THEN CHOOSE i \in 1..Len(s) : s[i] \in {"e", "E"}
            ELSE 0

\* The whole number a text of digits denotes.
DigitsIn(s) == Trim([i \in 1..Len(s) |-> DigitVal(s[i])])

\* The limits of float() on a decimal form: an exponent of more than nine
\* digits, leading zeros aside, counts as MaxAbsExp, and a number of more
\* than MaxDigits digits, leading zeros aside, or of more than MaxDigits
\* digits after the point, zeros included, is rejected.
MaxAbsExp == 1100000000

MaxDigits == 1000000000

Capped(d) == IF Len(d) > 9 THEN MaxAbsExp ELSE DigitsVal(DigitText(d), 0)

\* The exponent a text denotes, an optional sign and digits.
ExpVal(ex) == SignOf(ex) * Capped(DigitsIn(Unsigned(ex)))

\* The number N with fp digits after the point has too many digits, or too
\* many digits after the point, for float().
TooLong(N, fp) ==
  \/ N # <<0>> /\ Len(N) > MaxDigits
  \/ fp > MaxDigits

\* The number N with fp digits after the point, times 10^e.
Valued(sign, N, fp, e) ==
  IF TooLong(N, fp) THEN [ok |-> FALSE, val |-> Zero(1)]
  ELSE [ok |-> TRUE, val |-> FromDecimal(sign, N, e - fp)]

\* s before and after the place p, all of s before the place 0.
Before(s, p) == IF p = 0 THEN s ELSE SubSeq(s, 1, p - 1)

After(s, p) == IF p = 0 THEN <<>> ELSE SubSeq(s, p + 1, Len(s))

\* The digits ds with fp of them after the point, and the exponent ex.
ParseDigits(sign, ds, fp, ex) ==
  IF AllDigits(ds) /\ AllDigits(Unsigned(ex))
  THEN Valued(sign, DigitsIn(ds), fp, ExpVal(ex))
  ELSE [ok |-> FALSE, val |-> Zero(1)]

\* The mantissa with its point at p (0: none), and the exponent ex.
ParsePoint(sign, mant, p, ex) ==
  ParseDigits(sign, Before(mant, p) \o After(mant, p), Len(After(mant, p)), ex)

ParseMantissa(sign, mant, ex) == ParsePoint(sign, mant, IndexIn(".", mant), ex)

\* The decimal forms of float(text), sign and underscores taken off: digits
\* with at most one point and at least one digit, then an optional exponent
\* (e or E, an optional sign, digits).  The value is the digits before and
\* after the point, scaled by the exponent less the number of the latter.
ParseDecimal(sign, u) ==
  ParseMantissa(sign, Before(u, ExpAt(u)),
                IF ExpAt(u) = 0 THEN <<"0">> ELSE After(u, ExpAt(u)))

\* The float of sign sign that the text b denotes, low its lower case.
ParseUnsigned(sign, b, low) ==
  IF low \in InfTexts THEN [ok |-> TRUE, val |-> Inf(sign)]
  ELSE IF low = NanText THEN [ok |-> TRUE, val |-> NaN]
  ELSE IF ~ValidUnderscores(b) THEN [ok |-> FALSE, val |-> Zero(1)]
  ELSE ParseDecimal(sign, NoUnderscores(b))

ParseSigned(t) == ParseUnsigned(SignOf(t), Unsigned(t), Lowered(Unsigned(t)))

\* float(text): surrounding whitespace ignored, an optional sign, then "inf",
\* "infinity" or "nan" in any case, or a decimal form with single underscores
\* allowed between digits, rounded to the nearest double; anything else
\* raises ValueError (ok = FALSE).
ParseFloat(s) == ParseSigned(Bare(s))

\* utils.angstrom, the Angstrom-to-internal factor, to two decimals: the
\* double nearest to 1.89.
angstrom == Nearest(1, <<1, 8, 9>>, <<1, 0, 0>>, 0)

\* The number of digits after the point in the writer's format (15.10f).
FracDigits == 10

\* The field width of a coordinate in the writer's format (15.10f).
CoordWidth == 15

\* The minimum width of the symbol field in the writer's format (2s).
SymWidth == 2

\* x * a, x / a for a number x and a positive number a
Product(x, a) == Nearest(x.s, NatMul(x.M, a.M), <<1>>, x.E + a.E)

Quotient(x, a) == Nearest(x.s, x.M, a.M, x.E - a.E)

\* float * angstrom
MulAngstrom(x) == IF x.k = "num" THEN Product(x, angstrom) ELSE x

\* float / angstrom
DivAngstrom(x) == IF x.k = "num" THEN Quotient(x, angstrom) ELSE x

RECURSIVE DropLeadingZeros(_, _)
DropLeadingZeros(q, keep) ==
  IF Len(q) > keep /\ Head(q) = 0 THEN DropLeadingZeros(Tail(q), keep) ELSE q

PadLeft(s, w, c) == [i \in 1..(w - Len(s)) |-> c] \o s

PadRight(s, w, c) == s \o [i \in 1..(w - Len(s)) |-> c]

\* Mutant of Rounded: the digits past the last printed one are cut off.
Truncated(d, den) == d.q

\* The digits printed for the quotient d of a division by den: the nearest
\* whole number of units of the last printed digit.
Rounded(d, den) == HalfEven(d, den)

RoundedQuot(num, den) == Rounded(NatDiv(num, den), den)

\* |x| in units of the last printed digit, as the format rounds it.
Units(x) ==
  RoundedQuot(Shifted(x.M \o Zeros(FracDigits), x.E), Shifted(<<1>>, -x.E))

\* The digits q with the point before the last FracDigits of them and at
\* least one digit before the point.
PointText(q) ==
  SubSeq(DigitText(q), 1, Len(q) - FracDigits) \o <<".">>
    \o SubSeq(DigitText(q), Len(q) - FracDigits + 1, Len(q))

FixedText(q) ==
  PointText(DropLeadingZeros(PadLeft(q, FracDigits + 1, 0), FracDigits + 1))

Signed(x, body) == IF x.s < 0 THEN <<"-">> \o body ELSE body

\* What format 15.10f prints for an infinity or a nan.
SpecialText(x) == IF x.k = "inf" THEN Signed(x, <<"i","n","f">>)
                  ELSE <<"n","a","n">>

\* A float printed with format 15.10f: rounded to FracDigits digits after
\* the point, a minus sign for a negative number (also a negative zero),
\* right-justified in CoordWidth characters.
FloatText(q) ==
  PadLeft(IF q.k = "num" THEN Signed(q, FixedText(Units(q))) ELSE SpecialText(q),
          CoordWidth, " ")

\* (x / angstrom) printed with format 15.10f.
FormatCoord(x) == FloatText(DivAngstrom(x))

\* str(int), as print(data.natom) writes it.
IntText(n) ==
  LET ds == DigitsOf(Abs(n))
      txt == [i \in 1..Len(ds) |-> DigitChars[ds[i] + 1]]
  IN  IF n < 0 THEN <<"-">> \o txt ELSE txt

(***************************************************************************)
(* The element table (periodic.sym2num, periodic.num2sym).                 *)
(***************************************************************************)
Elements == { <<1, <<"H">> >>, <<6, <<"C">> >>, <<17, <<"C","l">> >> }

ElementNumbers == { el[1] : el \in Elements }

ElementSymbols == { el[2] : el \in Elements }

sym2num(sym) == (CHOOSE el \in Elements : el[2] = sym)[1]

num2sym(num) == (CHOOSE el \in Elements : el[1] = num)[2]

(***************************************************************************)
(* The sample inputs: lines for the readers, atoms for the writers.        *)
(***************************************************************************)
Ln(s) == s \o <<"\n">>

\* Count lines (the third with a digit-group underscore), a title, an empty
\* line, atom lines that load_one accepts (a symbol, a symbol in another
\* case after a form feed, an atomic number; coordinates with and without
\* point, sign, exponent and underscore, a negative zero, an infinity) and
\* atom lines it rejects (a word missing, a word that is no float, a word 0
\* that is neither symbol nor integer).
LineSamples ==
  { Ln(<<"0">>),
    Ln(<<"1">>),
    Ln(<<"0","_","2">>),
    Ln(<<" ","t"," ">>),
    Ln(<<>>),
    Ln(<<"C"," ","1",".","0"," ","0"," ","-",".","5">>),
    Ln(<<"\f","c","L","\f",".","0","0","0","0","0","0","0","0","0","2"," ","1"," ","1">>),
    Ln(<<"6"," ","1","_","0","e","-","1"," ","-","0"," ","i","n","F">>),
    Ln(<<"H"," ","1"," ","2">>),
    Ln(<<"H"," ","x"," ","0"," ","0">>),
    Ln(<<"é","L"," ","0"," ","0"," ","0">>) }

\* The double nearest to m * 10^-e.
Dec(m, e) == FromDecimal(IF m < 0 THEN -1 ELSE 1, DigitsOf(Abs(m)), -e)

\* Atoms with coordinates m * 10^-e in the internal unit.  Divided by angstrom they
\* are 1.50...e-10 (rounded up), 32848.148148... (sixteen digits are
\* printed, the last as the double quotient has it: 2, not 1), -0.5,
\* 0.52...e-10, -0.21...e-10 (printed as a negative zero), 0.5e-10 (halfway
\* between two printed values, the double quotient lies above), ...
PoolDecimals ==
  << [atnum |-> 1,  coord |-> << <<284, 12>>, <<62083, 0>>, <<-945, 3>> >>],
     [atnum |-> 17, coord |-> << <<1, 10>>, <<-4, 11>>, <<945, 13>> >>],
     [atnum |-> 6,  coord |-> << <<378, 12>>, <<-189, 1>>, <<95, 12>> >>],
     [atnum |-> 1,  coord |-> << <<0, 0>>, <<189, 2>>, <<189, 13>> >>] >>

\* The atom a with its coordinates <<m, e>> as floats.
AsFloats(a) ==
  [atnum |-> a.atnum, coord |-> [c \in 1..3 |-> Dec(a.coord[c][1], a.coord[c][2])]]

AtomPool == [i \in 1..Len(PoolDecimals) |-> AsFloats(PoolDecimals[i])]

\* Atoms with zeros and with coordinates that are no numbers.
SpecialAtoms ==
  << [atnum |-> 1,  coord |-> <<Zero(-1), Zero(1), Inf(1)>>],
     [atnum |-> 17, coord |-> <<Inf(-1), NaN, Zero(1)>>] >>

SampleCoords ==
  { a.coord[c] : a \in Range(AtomPool) \cup Range(SpecialAtoms), c \in 1..3 }

\* FormatCoord of the sample coordinates, worked out once.
SampleText == [x \in SampleCoords |-> FormatCoord(x)]

\* FormatCoord(x), from the table when it has x.
TextIn(table, x) == IF x \in DOMAIN table THEN table[x] ELSE FormatCoord(x)

\* x, y, z = data.atcoords[i] / angstrom, printed.
CoordText(x) == TextIn(SampleText, x)

\* The float p in the internal unit, the failure p as it is.
InUnit(p) == [ok |-> p.ok, val |-> IF p.ok THEN MulAngstrom(p.val) ELSE Zero(1)]

\* float(w) * angstrom, or the failure of float(w).
Coord(w) == InUnit(ParseFloat(w))

Stripped(table) == { Strip(table[x]) : x \in DOMAIN table }

\* The words of the sample lines and the sample coordinates as printed.
SampleWords ==
  UNION { Range(Split(l)) : l \in LineSamples } \cup Stripped(SampleText)

\* Coord of the sample words, worked out once.
SampleCoord == [w \in SampleWords |-> Coord(w)]

\* Coord(w), from the table when it has w.
CoordIn(table, w) == IF w \in DOMAIN table THEN table[w] ELSE Coord(w)

CoordOf(w) == CoordIn(SampleCoord, w)

(***************************************************************************)
(* load_one                                                                *)
(***************************************************************************)
\* Mutant of ParseAtnum: the symbol is looked up as written, not title-cased.
ParseAtnumAsWritten(tok) ==
  IF tok \in ElementSymbols
  THEN [ok |-> TRUE, val |-> sym2num(tok)]
  ELSE ParseInt(tok)

\* words[0] of an atom line: the title-cased symbol looked up in sym2num, and
\* on KeyError int(words[0]), which raises ValueError for a non-integer.
ParseAtnum(tok) ==
  IF Title(tok) \in ElementSymbols
  THEN [ok |-> TRUE, val |-> sym2num(Title(tok))]
  ELSE ParseInt(tok)

\* The coordinate c, or the ValueError of float().
Parsed(c) == IF ~c.ok THEN [kind |-> "ValueError", val |-> Zero(1)]
             ELSE [kind |-> "ok", val |-> c.val]

\* words[j] of an atom line as a coordinate: IndexError when the line has no
\* such word, ValueError when float() rejects it, else float(words[j]) * angstrom.
ParseCoord(words, j) ==
  IF Len(words) < j THEN [kind |-> "IndexError", val |-> Zero(1)]
  ELSE Parsed(CoordOf(words[j]))

\* atcoords[i, 0], then [i, 1], then [i, 2], from the three words c as
\* ParseCoord has them: the first failure is raised.
FirstFailure(c, atnum) ==
  IF c[1].kind # "ok" THEN [kind |-> c[1].kind, atnum |-> 0, coord |-> <<>>]
  ELSE IF c[2].kind # "ok" THEN [kind |-> c[2].kind, atnum |-> 0, coord |-> <<>>]
  ELSE IF c[3].kind # "ok" THEN [kind |-> c[3].kind, atnum |-> 0, coord |-> <<>>]
  ELSE [kind |-> "ok", atnum |-> atnum, coord |-> <<c[1].val, c[2].val, c[3].val>>]

\* The statements of the loop over the atoms after words[0] is resolved.
ReadCoords(words, atnum) ==
  FirstFailure([k \in 1..3 |-> ParseCoord(words, k + 1)], atnum)

\* The body of the loop over the atoms, for the words of one line.
ReadWords(words) ==
  IF words = <<>> THEN [kind |-> "IndexError", atnum |-> 0, coord |-> <<>>]
  ELSE IF ~ParseAtnum(words[1]).ok
  THEN [kind |-> "ValueError", atnum |-> 0, coord |-> <<>>]
  ELSE ReadCoords(words, ParseAtnum(words[1]).val)

ReadAtom(line) == ReadWords(Split(line))

\* What a load_one call leaves: kind is "ok" or the exception's type, data the
\* returned record (none on an exception), lineno the position of the line
\* source afterwards, errpos the source position the exception carries (none:
\* every exception here is raised by a built-in, none through lit.error).
Raised(k, pos) == [kind |-> k, data |-> <<>>, lineno |-> pos, errpos |-> <<>>]

\* Mutant of Returned: the reader has looked one line past the frame.
ReturnedAhead(title, nums, coords, pos) ==
  [kind |-> "ok",
   data |-> << [title |-> title, atnums |-> nums, atcoords |-> coords] >>,
   lineno |-> pos + 1, errpos |-> <<>>]

Returned(title, nums, coords, pos) ==
  [kind |-> "ok",
   data |-> << [title |-> title, atnums |-> nums, atcoords |-> coords] >>,
   lineno |-> pos, errpos |-> <<>>]

\* next(lit) raises StopIteration: the line source has no line after the
\* pos it has handed out.  (Otherwise next(lit) is lines[pos + 1] and the
\* position becomes pos + 1.)
Exhausted(lines, pos) == pos >= Len(lines)

\* The loop "for i in range(size)", n atoms still to read.
RECURSIVE ReadAtoms(_, _, _, _, _, _)
ReadAtoms(lines, pos, n, title, nums, coords) ==
  IF n = 0 THEN Returned(title, nums, coords, pos)
  ELSE IF Exhausted(lines, pos) THEN Raised("StopIteration", pos)
  ELSE LET a == ReadAtom(lines[pos + 1])
       IN  IF a.kind # "ok" THEN Raised(a.kind, pos + 1)
           ELSE ReadAtoms(lines, pos + 1, n - 1, title,
                          Append(nums, a.atnum), Append(coords, a.coord))

\* Mutant of load_one: the title line is not taken from the line source.
LoadOneNoTitle(lines, pos) ==
  IF Exhausted(lines, pos) THEN Raised("StopIteration", pos)
  ELSE LET size == ParseInt(lines[pos + 1])
       IN  IF ~size.ok THEN Raised("ValueError", pos + 1)
           ELSE IF size.val < 0 THEN Raised("ValueError", pos + 1)
           ELSE ReadAtoms(lines, pos + 1, size.val, <<>>, <<>>, <<>>)

\* load_one(lit) with the line source at position pos.
load_one(lines, pos) ==
  IF Exhausted(lines, pos) THEN Raised("StopIteration", pos)
  ELSE LET size == ParseInt(lines[pos + 1])
       IN  IF ~size.ok THEN Raised("ValueError", pos + 1)
           ELSE IF Exhausted(lines, pos + 1) THEN Raised("StopIteration", pos + 1)
           ELSE IF size.val < 0 THEN Raised("ValueError", pos + 2)
           ELSE ReadAtoms(lines, pos + 2, size.val,
                          Strip(lines[pos + 2]), <<>>, <<>>)

(***************************************************************************)
(* The readers' callers.                                                   *)
(***************************************************************************)
RECURSIVE SeqsUpTo(_, _)
SeqsUpTo(S, n) ==
  IF n = 0 THEN { <<>> }
  ELSE LET shorter == SeqsUpTo(S, n - 1)
       IN  shorter \cup { Append(q, x) : q \in shorter, x \in S }

\* Frames: a count line, a title line and as many atom lines, the last
\* frame with an atom line that load_one rejects.
FrameSamples ==
  { << Ln(<<"0">>), Ln(<<" ","t"," ">>) >>,
    << Ln(<<"1">>), Ln(<<>>),
       Ln(<<"C"," ","1",".","0"," ","0"," ","-",".","5">>) >>,
    << Ln(<<"0","_","2">>), Ln(<<" ","t"," ">>),
       Ln(<<"\f","c","L","\f",".","0","0","0","0","0","0","0","0","0","2"," ","1"," ","1">>),
       Ln(<<"6"," ","1","_","0","e","-","1"," ","-","0"," ","i","n","F">>) >>,
    << Ln(<<"1">>), Ln(<<" ","t"," ">>), Ln(<<"H"," ","x"," ","0"," ","0">>) >> }

RECURSIVE Concat(_)
Concat(ss) == IF ss = <<>> THEN <<>> ELSE Head(ss) \o Concat(Tail(ss))

\* The files read: every sequence of up to MaxLines sample lines, and every
\* concatenation of up to MaxFrames sample frames.
Files ==
  SeqsUpTo(LineSamples, MaxLines)
    \cup { Concat(fs) : fs \in SeqsUpTo(FrameSamples, MaxFrames) }

NoRet == [called |-> FALSE, start |-> 0, kind |-> "none", data |-> <<>>,
          errpos |-> <<>>]

NoSink == [lines |-> <<>>, closed |-> FALSE, flushes |-> 0]

NoLast == [op |-> "none", arg |-> <<>>, before |-> <<>>, calls |-> <<>>]

InitReader ==
  /\ lit \in { [lines |-> fl, lineno |-> 0] : fl \in Files }
  /\ ret = NoRet
  /\ gen = [state |-> "suspended", outcome |-> "none"]
  /\ out = <<>>
  /\ marks = <<>>
  /\ f = NoSink
  /\ written = <<>>
  /\ last = NoLast

\* A caller calls load_one(lit).
CallLoadOne ==
  \E r \in { load_one(lit.lines, lit.lineno) } :
    /\ ret' = [called |-> TRUE, start |-> lit.lineno, kind |-> r.kind,
               data |-> r.data, errpos |-> r.errpos]
    /\ lit' = [lit EXCEPT !.lineno = r.lineno]
    /\ UNCHANGED <<gen, out, marks, f, written, last>>

NextLoadOne == CallLoadOne

SpecLoadOne == InitReader /\ [][NextLoadOne]_vars

(***************************************************************************)
(* load_many                                                               *)
(***************************************************************************)
\* Mutant of GenStep: StopIteration is not caught.
GenStepNoExcept(kind) == IF kind = "ok" THEN "yield" ELSE "raise"

\* What the generator does with the outcome of the load_one call of one turn
\* of its loop: "yield" the record, "return" on StopIteration, and let any
\* other exception through ("raise").
GenStep(kind) ==
  IF kind = "ok" THEN "yield"
  ELSE IF kind = "StopIteration" THEN "return"
  ELSE "raise"

\* The consumer asks the generator for its next item: one turn of the loop.
load_many ==
  /\ gen.state = "suspended"
  /\ \E r \in { load_one(lit.lines, lit.lineno) } :
       \E step \in { GenStep(r.kind) } :
         /\ ret' = [called |-> TRUE, start |-> lit.lineno, kind |-> r.kind,
                    data |-> r.data, errpos |-> r.errpos]
         /\ lit' = [lit EXCEPT !.lineno = r.lineno]
         /\ out' = IF step = "yield" THEN out \o r.data ELSE out
         /\ marks' = IF step = "yield" THEN Append(marks, r.lineno) ELSE marks
         /\ gen' = IF step = "yield" THEN gen
                   ELSE IF step = "return"
                        THEN [state |-> "finished", outcome |-> "end"]
                        ELSE [state |-> "finished", outcome |-> r.kind]
  /\ UNCHANGED <<f, written, last>>

NextLoadMany == load_many

SpecLoadMany == InitReader /\ [][NextLoadMany]_vars

(***************************************************************************)
(* Properties of load_one.                                                 *)
(***************************************************************************)
\* The call behind ret got past the count and title lines and then consumed
\* the atom line lit.lines[lit.lineno], on which it failed.
FailedOnAtomLine ==
  /\ ret.called
  /\ ret.kind \notin {"ok", "StopIteration"}
  /\ lit.lineno >= ret.start + 3

FailedWords == Split(lit.lines[lit.lineno])

\* C1: end-of-input after the count line was read is a malformed-input error,
\* never exhaustion: load_one signals exhaustion only when no line remained
\* at the moment it was called.
C1_ExhaustionOnlyAtBoundary ==
  /\ (ret.called /\ ret.kind = "StopIteration") => ret.start >= Len(lit.lines)
  /\ (ret.called /\ ret.start < Len(lit.lines)
        /\ ParseInt(lit.lines[ret.start + 1]).ok
        /\ ParseInt(lit.lines[ret.start + 1]).val >= 0
        /\ Len(lit.lines) < ret.start + ParseInt(lit.lines[ret.start + 1]).val + 2)
     => ret.kind \in {"ValueError", "IndexError"}

\* C5: a successful load_one with count N returns N atomic numbers and N
\* coordinate triples and consumes exactly N + 2 lines; with N = 0 both
\* sequences are empty and only the count and title lines are consumed.
C5_ConsumesCountPlusTwo ==
  (ret.called /\ ret.kind = "ok") =>
    LET n == ParseInt(lit.lines[ret.start + 1]).val
        d == ret.data[1]
    IN  /\ Len(d.atnums) = n
        /\ Len(d.atcoords) = n
        /\ lit.lineno = ret.start + n + 2
        /\ (n = 0 => d.atnums = <<>> /\ d.atcoords = <<>>
                     /\ lit.lineno = ret.start + 2)

C5_Witness ==
  /\ ret.called /\ ret.kind = "ok"
  /\ ret.data[1].atnums = <<>>
  /\ lit.lineno = ret.start + 2
  /\ lit.lineno < Len(lit.lines)

\* Token 0 names the element num: its title-cased form is a symbol of the
\* table mapped to num, or it is no symbol and is the integer num.
Resolves(tok, num) ==
  \/ \E el \in Elements : el[2] = Title(tok) /\ el[1] = num
  \/ /\ \A el \in Elements : el[2] # Title(tok)
     /\ ParseInt(tok).ok /\ ParseInt(tok).val = num

Resolvable(tok) == Title(tok) \in ElementSymbols \/ ParseInt(tok).ok

\* Words 2..4 of an atom line make load_one fail: one is missing or no float.
CoordsFail(words) ==
  \E j \in 2..4 : Len(words) < j \/ ~CoordOf(words[j]).ok

\* C6: token 0 of every atom line is resolved by the title-cased lookup in the
\* element table and, only when that finds nothing, as an integer; a token 0
\* that is neither makes load_one fail with a numeric-parse error (ValueError)
\* and return no record, and a token 0 that resolves never makes it fail.
C6_SymbolThenInteger ==
  /\ (ret.called /\ ret.kind = "ok") =>
       \A i \in 1..Len(ret.data[1].atnums) :
         Resolves(Split(lit.lines[ret.start + 2 + i])[1], ret.data[1].atnums[i])
  /\ (FailedOnAtomLine /\ FailedWords # <<>>) =>
       IF Resolvable(FailedWords[1])
       THEN CoordsFail(FailedWords)
       ELSE ret.kind = "ValueError" /\ ret.data = <<>>

C6_Witness ==
  /\ ret.called /\ ret.kind = "ok"
  /\ ret.data[1].atnums = <<17, 6>>
  /\ Split(lit.lines[ret.start + 3])[1] = <<"c", "L">>
  /\ Split(lit.lines[ret.start + 4])[1] = <<"6">>

\* C9: when an atom line has fewer than 4 tokens, load_one fails on that very
\* line (no later line is consumed) and the error carries that line's position.
C9_ShortLineErrorHasPosition ==
  (FailedOnAtomLine /\ Len(FailedWords) < 4
     /\ \A j \in 1..Len(FailedWords) :
          IF j = 1 THEN Resolvable(FailedWords[1])
          ELSE CoordOf(FailedWords[j]).ok)
  => /\ ret.kind \in {"IndexError", "ValueError"}
     /\ ret.errpos = <<lit.lineno>>

(***************************************************************************)
(* Properties of load_many.                                                *)
(***************************************************************************)
\* The lines from position pos on cut into frames by their count lines alone:
\* each frame is a count line N, a title line and N more lines.
RECURSIVE CutFrames(_, _, _)
CutFrames(lines, pos, acc) ==
  IF pos >= Len(lines) THEN [ok |-> TRUE, frames |-> acc]
  ELSE IF ~ParseInt(lines[pos + 1]).ok
          \/ ParseInt(lines[pos + 1]).val < 0
          \/ Len(lines) < pos + ParseInt(lines[pos + 1]).val + 2
       THEN [ok |-> FALSE, frames |-> <<>>]
       ELSE CutFrames(lines, pos + ParseInt(lines[pos + 1]).val + 2,
                      Append(acc, SubSeq(lines, pos + 1,
                                  pos + ParseInt(lines[pos + 1]).val + 2)))

\* The records load_one returns for each frame alone, when every frame is
\* well formed.
FrameRecords(cut) ==
  [i \in 1..Len(cut.frames) |-> load_one(cut.frames[i], 0)]

\* The input is the direct concatenation of well-formed frames.
WellFormed(cut, recs) ==
  cut.ok /\ \A i \in 1..Len(recs) : recs[i].kind = "ok"

WellFormedInput ==
  \E cut \in { CutFrames(lit.lines, 0, <<>>) } :
    WellFormed(cut, FrameRecords(cut))

\* C2: load_many ends its sequence normally only when exhaustion is signalled
\* at a frame boundary; a truncated last frame is a malformed-input error that
\* reaches the consumer, never a silent normal end.
C2_NormalEndOnlyAtBoundary ==
  (gen.state = "finished" /\ gen.outcome = "end") => ret.start >= Len(lit.lines)

\* C3: on the concatenation of k well-formed frames load_many yields the
\* records load_one returns for each frame alone, in file order, never more
\* than k, and ends normally after the k-th, without an error.
C3_YieldsEachFrameInOrder ==
  \A cut \in { CutFrames(lit.lines, 0, <<>>) } :
    \A recs \in { FrameRecords(cut) } :
      WellFormed(cut, recs) =>
        /\ Len(out) <= Len(recs)
        /\ \A i \in 1..Len(out) : <<out[i]>> = recs[i].data
        /\ gen.state = "finished" =>
             gen.outcome = "end" /\ Len(out) = Len(recs)

C3_Witness ==
  /\ WellFormedInput
  /\ gen.state = "finished"
  /\ Len(out) = 2
  /\ Len(out[1].atnums) = 2
  /\ Len(out[2].atnums) = 1

RECURSIVE FrameEnd(_, _)
FrameEnd(recs, k) ==
  IF k = 0 THEN 0 ELSE FrameEnd(recs, k - 1) + Len(recs[k].atnums) + 2

\* C10: load_many is lazy and forward-only: when it yields its k-th record it
\* has consumed exactly the lines of frames 1..k, it consumes nothing between
\* two requests, and when frame k+1 fails with an error other than exhaustion
\* the records 1..k have been yielded, in order, and the error is the outcome.
C10_LazyForwardOnly ==
  /\ Len(marks) = Len(out)
  /\ \A k \in 1..Len(out) :
       /\ marks[k] = FrameEnd(out, k)
       /\ <<out[k]>> = load_one(lit.lines, FrameEnd(out, k - 1)).data
  /\ gen.state = "suspended" => lit.lineno = FrameEnd(out, Len(out))
  /\ gen.outcome \notin {"none", "end"} =>
       /\ gen.state = "finished"
       /\ ret.start = FrameEnd(out, Len(out))
       /\ ret.kind = gen.outcome
       /\ load_one(lit.lines, ret.start).kind = gen.outcome

C10_Witness ==
  /\ gen.state = "finished"
  /\ gen.outcome = "ValueError"
  /\ Len(out) >= 1
  /\ out[1].atnums # <<>>

(***************************************************************************)
(* dump_one and dump_many                                                  *)
(***************************************************************************)
\* A record's title may be absent (None); a present title is a text.
None == <<"None">>

Placeholder == <<"C","r","e","a","t","e","d"," ","w","i","t","h"," ",
                 "I","O","D","a","t","a">>

\* The lines of a text that ends with a line break, each with its line break.
RECURSIVE LinesOf(_, _, _)
LinesOf(s, cur, acc) ==
  IF s = <<>> THEN acc
  ELSE IF Head(s) = "\n"
       THEN LinesOf(Tail(s), <<>>, Append(acc, Append(cur, "\n")))
       ELSE LinesOf(Tail(s), Append(cur, Head(s)), acc)

\* print(text, file=f): the text and a line break are written to the sink,
\* which is neither flushed nor closed.  The sink is kept as the lines of
\* what was written: a line break inside the text ends a line as well.
PrintLine(fs, text) ==
  [fs EXCEPT !.lines = @ \o LinesOf(text \o <<"\n">>, <<>>, <<>>)]

\* data.title or 'Created with IOData'
TitleOrDefault(title) ==
  IF title = None \/ title = <<>> THEN Placeholder ELSE title

\* The fields n, t[1], t[2], t[3] with single spaces between.
Spaced(n, t) == n \o <<" ">> \o t[1] \o <<" ">> \o t[2] \o <<" ">> \o t[3]

\* The line of atom i: the symbol left-justified in SymWidth characters and
\* the three coordinates, single spaces between.
AtomLine(data, i) ==
  Spaced(PadRight(num2sym(data.atnums[i]), SymWidth, " "),
         [c \in 1..3 |-> CoordText(data.atcoords[i][c])])

\* The loop "for i in range(data.natom)", from atom i on.
RECURSIVE DumpAtoms(_, _, _)
DumpAtoms(fs, data, i) ==
  IF i > Len(data.atnums) THEN fs
  ELSE DumpAtoms(PrintLine(fs, AtomLine(data, i)), data, i + 1)

\* Mutant of dump_one: the title is written as it is, also when empty.
DumpOneNoDefault(fs, data) ==
  DumpAtoms(PrintLine(PrintLine(fs, IntText(Len(data.atnums))),
                      IF data.title = None THEN <<>> ELSE data.title),
            data, 1)

\* dump_one(f, data)
dump_one(fs, data) ==
  DumpAtoms(PrintLine(PrintLine(fs, IntText(Len(data.atnums))),
                      TitleOrDefault(data.title)),
            data, 1)

\* Mutant of dump_many: the loop is left after the first record.
DumpManyFirstOnly(fs, datas, calls) ==
  IF datas = <<>> THEN [f |-> fs, calls |-> calls]
  ELSE [f |-> dump_one(fs, Head(datas)), calls |-> Append(calls, Head(datas))]

\* dump_many(f, datas): the sink afterwards and the records dump_one was
\* called with, in call order.
RECURSIVE dump_many(_, _, _)
dump_many(fs, datas, calls) ==
  IF datas = <<>> THEN [f |-> fs, calls |-> calls]
  ELSE dump_many(dump_one(fs, Head(datas)), Tail(datas),
                Append(calls, Head(datas)))

(***************************************************************************)
(* The writers' callers.                                                   *)
(***************************************************************************)
\* Titles: absent, empty, blank, with blanks around and inside, and one
\* that holds a line break.
TitleSamples ==
  { None, <<>>, <<"\f"," ">>, <<" ","t"," ">>, <<"A","b"," ","c">>,
    <<"a","\n","b">> }

Record(t, al) ==
  [title |-> t,
   atnums |-> [i \in 1..Len(al) |-> al[i].atnum],
   atcoords |-> [i \in 1..Len(al) |-> al[i].coord]]

\* The first n atoms of the pool, n up to MaxAtoms.
AtomLists == { SubSeq(AtomPool, 1, n) : n \in 0..MaxAtoms }

\* Every title without atoms, every atom list under one title, and the
\* special atoms.
DataSamples ==
  { Record(t, <<>>) : t \in TitleSamples }
    \cup { Record(<<" ","t"," ">>, al) : al \in AtomLists }
    \cup { Record(<<"A","b"," ","c">>, SpecialAtoms) }

InitWriter ==
  /\ lit = [lines |-> <<>>, lineno |-> 0]
  /\ ret = NoRet
  /\ gen = [state |-> "suspended", outcome |-> "none"]
  /\ out = <<>>
  /\ marks = <<>>
  /\ f = NoSink
  /\ written = <<>>
  /\ last = NoLast

\* A caller calls dump_one(f, data).
CallDumpOne ==
  \E d \in DataSamples :
    /\ Len(written) < MaxFrames
    /\ f' = dump_one(f, d)
    /\ written' = Append(written, d)
    /\ last' = [op |-> "dump_one", arg |-> <<d>>, before |-> f.lines,
                calls |-> <<d>>]
    /\ UNCHANGED <<lit, ret, gen, out, marks>>

\* A caller calls dump_many(f, datas).
CallDumpMany ==
  \E ds \in SeqsUpTo(DataSamples, MaxFrames - Len(written)) :
    \E r \in { dump_many(f, ds, <<>>) } :
      /\ f' = r.f
      /\ written' = written \o r.calls
      /\ last' = [op |-> "dump_many", arg |-> ds, before |-> f.lines,
                  calls |-> r.calls]
      /\ UNCHANGED <<lit, ret, gen, out, marks>>

\* A caller opens the text written so far as a line source and calls
\* load_one on it.
CallLoadBack ==
  \E r \in { load_one(f.lines, 0) } :
    /\ ret' = [called |-> TRUE, start |-> 0, kind |-> r.kind,
               data |-> r.data, errpos |-> r.errpos]
    /\ lit' = [lines |-> f.lines, lineno |-> r.lineno]
    /\ UNCHANGED <<gen, out, marks, f, written, last>>

NextDump == CallDumpOne \/ CallDumpMany \/ CallLoadBack

SpecDump == InitWriter /\ [][NextDump]_vars

(***************************************************************************)
(* Properties of dump_one and dump_many.                                   *)
(***************************************************************************)
\* The title is absent or holds no line break.
SingleLine(title) == title = None \/ "\n" \notin Range(title)

\* C7 as stated: for any record dump_one writes exactly N + 2 lines after
\* what the sink held: the atom count N, the title or the placeholder
\* "Created with IOData" when the title is empty or absent, and one line per
\* atom in atom-index order; it neither closes nor flushes the sink.
C7_DumpOneWritesCountTitleAtoms ==
  last.op = "dump_one" =>
    LET d == last.arg[1]
        n == Len(d.atnums)
        o == Len(last.before)
    IN  /\ Len(f.lines) = o + n + 2
        /\ SubSeq(f.lines, 1, o) = last.before
        /\ ParseInt(f.lines[o + 1]) = [ok |-> TRUE, val |-> n]
        /\ f.lines[o + 2] =
             (IF d.title = None \/ d.title = <<>> THEN Placeholder ELSE d.title)
               \o <<"\n">>
        /\ \A i \in 1..n :
             /\ Len(Split(f.lines[o + 2 + i])) = 4
             /\ Split(f.lines[o + 2 + i])[1] = num2sym(d.atnums[i])
        /\ f.closed = FALSE
        /\ f.flushes = 0

\* C7 as amended: for any record whose title holds no line break dump_one
\* writes exactly N + 2 lines after what the sink held: the atom count N, the
\* title or the placeholder when the title is empty or absent, and one line
\* per atom in atom-index order; it neither closes nor flushes the sink.
C7_SingleLineTitleWritesCountTitleAtoms ==
  (last.op = "dump_one" /\ SingleLine(last.arg[1].title)) =>
    LET d == last.arg[1]
        n == Len(d.atnums)
        o == Len(last.before)
    IN  /\ Len(f.lines) = o + n + 2
        /\ SubSeq(f.lines, 1, o) = last.before
        /\ ParseInt(f.lines[o + 1]) = [ok |-> TRUE, val |-> n]
        /\ f.lines[o + 2] =
             (IF d.title = None \/ d.title = <<>> THEN Placeholder ELSE d.title)
               \o <<"\n">>
        /\ \A i \in 1..n :
             /\ Len(Split(f.lines[o + 2 + i])) = 4
             /\ Split(f.lines[o + 2 + i])[1] = num2sym(d.atnums[i])
        /\ f.closed = FALSE
        /\ f.flushes = 0

C7_Witness ==
  /\ last.op = "dump_one"
  /\ last.before # <<>>
  /\ last.arg[1].title = <<>>
  /\ Len(f.lines) = Len(last.before) + 2

RECURSIVE FramesText(_)
FramesText(datas) ==
  IF datas = <<>> THEN <<>>
  ELSE dump_one(NoSink, Head(datas)).lines \o FramesText(Tail(datas))

\* C8: dump_many calls dump_one exactly once per record, in sequence order:
\* what it adds to the sink is the concatenation of what dump_one writes for
\* each record, nothing between, before or after.
C8_DumpManyIsConcatenation ==
  last.op = "dump_many" =>
    /\ last.calls = last.arg
    /\ f.lines = last.before \o FramesText(last.arg)

C8_Witness ==
  /\ last.op = "dump_many"
  /\ Len(last.arg) = 2
  /\ last.arg[1] # last.arg[2]
  /\ last.arg[2].atnums # <<>>

Numeric(x) == x.k = "num"

Least(S) == CHOOSE n \in S : \A m \in S : n <= m

\* |x| / 2^e as a whole number, for e at most the exponent of x.
Over(x, e) == Shifted(x.M, x.E - e)

Gap(a, b) == IF NatLess(a, b) THEN NatSub(b, a) ELSE NatSub(a, b)

\* a * 2 * 10^FracDigits
Doubled(a) == Trim(NatTimes(a, 2) \o Zeros(FracDigits))

\* x and y differ by at most half a unit of the last printed digit, in the
\* internal unit, and eight units in the last place of the double x:
\* |x - y| <= angstrom * 10^-FracDigits / 2 + |x| * 2^(3 - MantBits).
\* A number is compared by value, an infinity or a nan with itself.
Close(x, y) ==
  \/ x = y
  \/ /\ Numeric(x) /\ Numeric(y)
     /\ LET e == Least({x.E, y.E, angstrom.E})
            gap == IF x.s = y.s THEN Gap(Over(x, e), Over(y, e))
                   ELSE NatAdd(Over(x, e), Over(y, e))
        IN  ~NatLess(NatAdd(Shifted(Over(angstrom, e), MantBits - 3),
                            Doubled(Over(x, e))),
                     Shifted(Doubled(gap), MantBits - 3))

\* Close on the sample coordinates and what their printed text reads back as,
\* evaluated once.
SampleBack == { SampleCoord[Strip(SampleText[x])].val : x \in SampleCoords }

SampleClose ==
  UNION { { <<x, y>> : y \in { z \in SampleBack : Close(x, z) } } :
          x \in SampleCoords }

Near(x, y) == IF x \in SampleCoords /\ y \in SampleBack
              THEN <<x, y>> \in SampleClose
              ELSE Close(x, y)

\* What load_one returned is the first record written, up to the title.
SameGeometry(d, r) ==
  /\ Len(r.atnums) = Len(d.atnums)
  /\ r.atnums = d.atnums
  /\ Len(r.atcoords) = Len(d.atcoords)
  /\ \A i \in 1..Len(d.atcoords) :
       \A c \in 1..3 : Near(d.atcoords[i][c], r.atcoords[i][c])

\* C4 as stated: dump_one then load_one returns the same atomic numbers, the
\* same coordinates up to the printed precision (and the rounding of the
\* float arithmetic) and the same title, the placeholder standing for an
\* empty or absent title.
C4_RoundTripSameTitle ==
  (ret.called /\ lit.lines # <<>>) =>
    /\ ret.kind = "ok"
    /\ SameGeometry(written[1], ret.data[1])
    /\ ret.data[1].title =
         IF written[1].title = None \/ written[1].title = <<>>
         THEN Placeholder
         ELSE written[1].title

\* C4 as amended: for a record whose title holds no line break, dump_one then
\* load_one returns the same atomic numbers, the same coordinates up to the
\* printed precision (and the rounding of the float arithmetic), and the
\* title with its leading and trailing whitespace removed (the placeholder
\* for an empty or absent title).
C4_RoundTripStrippedTitle ==
  (ret.called /\ lit.lines # <<>> /\ SingleLine(written[1].title)) =>
    /\ ret.kind = "ok"
    /\ SameGeometry(written[1], ret.data[1])
    /\ ret.data[1].title =
         IF written[1].title = None \/ written[1].title = <<>>
         THEN Placeholder
         ELSE Strip(written[1].title)

C4_Witness ==
  /\ ret.called /\ ret.kind = "ok"
  /\ Len(ret.data[1].atnums) = 2
  /\ written[1].title = <<" ", "t", " ">>
  /\ ret.data[1].title = <<"t">>
  /\ ret.data[1].atcoords # written[1].atcoords

====
